---- MODULE Spec2Model ----
(***************************************************************************)
(* Family-tree layout engine (calculateLayout of the FamilyTree component) *)
(* and the relationship-creation path (AddRelationshipForm ->              *)
(* relationshipsApi.create) modelled as state machines.                    *)
(*                                                                         *)
(* Person and relationship ids are opaque strings in the program.  The     *)
(* layout only compares them for equality; relationshipsApi.create also    *)
(* orders them with Array.prototype.sort (string order).  Ids are the      *)
(* naturals of PersonIds, and < on them stands for the string order.       *)
(***************************************************************************)
EXTENDS Integers, Sequences, FiniteSets, TLC

\* ---------------------------------------------------------------------------
\* Bounds and program constants
\* ---------------------------------------------------------------------------

\* Longest relationships list handed to calculateLayout.
MaxRels == 2

\* Universe of person ids.  A people list names its persons in list order
\* (ids 1..n), so every id above n is an id of a person that is NOT in the
\* list: relationships may still reference it.
PersonIds == {1, 2, 3}

\* Birthdays (years); only their order matters to the comparator.
Birthdays == {1950, 1975}

HORIZONTAL_SPACING == 250

VERTICAL_SPACING == 200

RELATIONSHIP_CATEGORIES ==
  [ parent  |-> {"biological_parent", "adoptive_parent", "step_parent",
                 "foster_parent", "guardian"},
    spouse  |-> {"spouse", "ex_spouse", "partner", "ex_partner"},
    sibling |-> {"sibling", "half_sibling", "step_sibling", "adopted_sibling"} ]

\* Relationship types the layout inputs are drawn from: one per category.
InputTypes == {"biological_parent", "spouse", "sibling"}

\* A family of six for the traversals that three ids are too few to show.
\* Adam (1), Zoe (2) and Will (3) have no parents; Xena (4) is Adam's child,
\* Yvonne (5) is Zoe's child and Adam's spouse, Sam (6) is Will's child,
\* Xena's spouse and Yvonne's former spouse.
FamilyPeople ==
  << [id |-> 1, birthday |-> 1950], [id |-> 2, birthday |-> 1950],
     [id |-> 3, birthday |-> 1950], [id |-> 4, birthday |-> 1975],
     [id |-> 5, birthday |-> 1975], [id |-> 6, birthday |-> 1975] >>

FamilyRelationships ==
  << [id |-> 1, person1_id |-> 1, person2_id |-> 4,
      relationship_type |-> "biological_parent"],
     [id |-> 2, person1_id |-> 1, person2_id |-> 5,
      relationship_type |-> "spouse"],
     [id |-> 3, person1_id |-> 2, person2_id |-> 5,
      relationship_type |-> "biological_parent"],
     [id |-> 4, person1_id |-> 3, person2_id |-> 6,
      relationship_type |-> "biological_parent"],
     [id |-> 5, person1_id |-> 4, person2_id |-> 6,
      relationship_type |-> "spouse"],
     [id |-> 6, person1_id |-> 5, person2_id |-> 6,
      relationship_type |-> "ex_spouse"] >>

\* A household of five: Ruth (1) and Zed (2) have no parents; Yann (3) is
\* Ruth's child, Xavi (4) is Zed's child, Ruth's spouse and Yann's former
\* spouse, Cleo (5) is Xavi's child.
HouseholdPeople ==
  << [id |-> 1, birthday |-> 1950], [id |-> 2, birthday |-> 1950],
     [id |-> 3, birthday |-> 1975], [id |-> 4, birthday |-> 1975],
     [id |-> 5, birthday |-> 1975] >>

HouseholdRelationships ==
  << [id |-> 1, person1_id |-> 1, person2_id |-> 3,
      relationship_type |-> "biological_parent"],
     [id |-> 2, person1_id |-> 1, person2_id |-> 4,
      relationship_type |-> "spouse"],
     [id |-> 3, person1_id |-> 3, person2_id |-> 4,
      relationship_type |-> "ex_spouse"],
     [id |-> 4, person1_id |-> 2, person2_id |-> 4,
      relationship_type |-> "biological_parent"],
     [id |-> 5, person1_id |-> 4, person2_id |-> 5,
      relationship_type |-> "biological_parent"] >>

\* Every person id a relationship of the model can name.
AllIds == PersonIds \cup { FamilyPeople[i].id : i \in DOMAIN FamilyPeople }

\* ---------------------------------------------------------------------------
\* Input shapes
\* ---------------------------------------------------------------------------

\* People lists: n persons with ids 1..n in list order, any birthdays.
PeopleLists ==
  UNION { { [i \in 1..n |-> [id |-> i, birthday |-> b[i]]] :
              b \in [1..n -> Birthdays] } :
          n \in 0..Cardinality(PersonIds) }

\* Relationship lists: up to MaxRels relationships with distinct ids, any
\* endpoints (including absent persons and self-relationships), any type.
RelLists ==
  UNION { { [i \in 1..k |-> [id |-> i, person1_id |-> f[i][1],
                             person2_id |-> f[i][2],
                             relationship_type |-> f[i][3]]] :
              f \in [1..k -> PersonIds \X PersonIds \X InputTypes] } :
          k \in 0..MaxRels }

\* ---------------------------------------------------------------------------
\* Helpers
\* ---------------------------------------------------------------------------

Max(a, b) == IF a >= b THEN a ELSE b

MapSeq(s, F(_)) == [i \in 1..Len(s) |-> F(s[i])]

SeqToSet(s) == { s[i] : i \in 1..Len(s) }

IsParentRel(rel) == rel.relationship_type \in RELATIONSHIP_CATEGORIES.parent

IsSpouseRel(rel) == rel.relationship_type \in RELATIONSHIP_CATEGORIES.spouse

IsSiblingRel(rel) == rel.relationship_type \in RELATIONSHIP_CATEGORIES.sibling

\* Map.get(k) || dflt for a map held as a function on the keys that were set.
MapGet(m, k, dflt) == IF k \in DOMAIN m THEN m[k] ELSE dflt

\* Map.set(k, v)
MapSet(m, k, v) == [x \in (DOMAIN m) \cup {k} |-> IF x = k THEN v ELSE m[x]]

EmptyMap == [x \in {} |-> 0]

\* ---------------------------------------------------------------------------
\* calculateLayout: adjacency maps (lines 85-109)
\* ---------------------------------------------------------------------------

\* childToParents.get(c) || []: person1_id of every parent-category
\* relationship whose person2_id is c, in list order.
ChildToParents(rels) ==
  [c \in { rels[i].person2_id :
             i \in { j \in 1..Len(rels) : IsParentRel(rels[j]) } } |->
     MapSeq(SelectSeq(rels, LAMBDA r : IsParentRel(r) /\ r.person2_id = c),
            LAMBDA r : r.person1_id)]

\* parentToChildren.get(p) || []
ParentToChildren(rels) ==
  [p \in { rels[i].person1_id :
             i \in { j \in 1..Len(rels) : IsParentRel(rels[j]) } } |->
     MapSeq(SelectSeq(rels, LAMBDA r : IsParentRel(r) /\ r.person1_id = p),
            LAMBDA r : r.person2_id)]

\* Mutant of SpouseList: only person1's list receives the partner (the
\* relationship is taken as directed).
RECURSIVE SpouseList_Directed(_, _)
SpouseList_Directed(rels, k) ==
  IF rels = <<>> THEN <<>>
  ELSE LET r == Head(rels)
           own == IF IsSpouseRel(r) /\ ~IsParentRel(r)
                  THEN (IF r.person1_id = k THEN <<r.person2_id>> ELSE <<>>)
                  ELSE <<>>
       IN  own \o SpouseList_Directed(Tail(rels), k)

\* spouses.get(k) || []: each spouse-category relationship pushes person2 on
\* person1's list and then person1 on person2's list.
RECURSIVE SpouseList(_, _)
SpouseList(rels, k) ==
  IF rels = <<>> THEN <<>>
  ELSE LET r == Head(rels)
           own == IF IsSpouseRel(r) /\ ~IsParentRel(r)
                  THEN (IF r.person1_id = k THEN <<r.person2_id>> ELSE <<>>)
                       \o (IF r.person2_id = k THEN <<r.person1_id>> ELSE <<>>)
                  ELSE <<>>
       IN  own \o SpouseList(Tail(rels), k)

\* Mutant of Spouses: the sibling-category relationships are entered in the
\* spouses map as well.
Spouses_SiblingsToo(rels) ==
  LET rs == [i \in 1..Len(rels) |->
               IF IsSiblingRel(rels[i])
               THEN [rels[i] EXCEPT !.relationship_type = "spouse"]
               ELSE rels[i]]
  IN  [k \in UNION { {rs[i].person1_id, rs[i].person2_id} :
                      i \in { j \in 1..Len(rs) :
                                IsSpouseRel(rs[j]) /\ ~IsParentRel(rs[j]) } } |->
         SpouseList(rs, k)]

Spouses(rels) ==
  [k \in UNION { {rels[i].person1_id, rels[i].person2_id} :
                  i \in { j \in 1..Len(rels) :
                            IsSpouseRel(rels[j]) /\ ~IsParentRel(rels[j]) } } |->
     SpouseList(rels, k)]

\* ---------------------------------------------------------------------------
\* calculateLayout: start nodes (lines 113-124)
\* ---------------------------------------------------------------------------

PersonIdSet(ppl) == { ppl[i].id : i \in 1..Len(ppl) }

\* roots = people.filter(p => !childToParents.has(p.id) || ...length === 0)
Roots(ppl, c2p) == SelectSeq(ppl, LAMBDA p : MapGet(c2p, p.id, <<>>) = <<>>)

\* Mutant of SortByBirthday: a sort that is not stable (persons with equal
\* birthdays come out in reverse order).
RECURSIVE SortByBirthday_TiesReversed(_)
SortByBirthday_TiesReversed(s) ==
  IF Len(s) <= 1 THEN s
  ELSE LET front == SortByBirthday_TiesReversed(SubSeq(s, 1, Len(s) - 1))
           last  == s[Len(s)]
           k     == Cardinality({ i \in 1..Len(front) :
                                    front[i].birthday < last.birthday })
       IN  SubSeq(front, 1, k) \o <<last>> \o SubSeq(front, k + 1, Len(front))

\* Array.prototype.sort with the birthday comparator: a stable ascending
\* sort (equal birthdays keep their relative order), done in place.
RECURSIVE SortByBirthday(_)
SortByBirthday(s) ==
  IF Len(s) <= 1 THEN s
  ELSE LET front == SortByBirthday(SubSeq(s, 1, Len(s) - 1))
           last  == s[Len(s)]
           k     == Cardinality({ i \in 1..Len(front) :
                                    front[i].birthday <= last.birthday })
       IN  SubSeq(front, 1, k) \o <<last>> \o SubSeq(front, k + 1, Len(front))

\* The people array as calculateLayout leaves it: people.sort(...) runs, on
\* the caller's array, only when there is no root.
PeopleAfterStart(ppl, c2p) ==
  IF Roots(ppl, c2p) # <<>> THEN ppl ELSE SortByBirthday(ppl)

\* Mutant of StartNodes: the fallback takes the first listed person without
\* sorting by birthday.
StartNodes_FirstListed(ppl, c2p) ==
  IF Roots(ppl, c2p) # <<>> THEN Roots(ppl, c2p)
  ELSE <<ppl[1]>>

\* Mutant of StartNodes: only the first root is a start point.
StartNodes_OnlyFirstRoot(ppl, c2p) ==
  IF Roots(ppl, c2p) # <<>> THEN <<Roots(ppl, c2p)[1]>>
  ELSE <<SortByBirthday(ppl)[1]>>

\* Mutant of StartNodes: with roots, only the oldest root is a start point.
StartNodes_OldestRoot(ppl, c2p) ==
  IF Roots(ppl, c2p) # <<>> THEN <<SortByBirthday(Roots(ppl, c2p))[1]>>
  ELSE <<SortByBirthday(ppl)[1]>>

\* startNodes = roots.length > 0 ? roots : [people.sort(...)[0]]
StartNodes(ppl, c2p) ==
  IF Roots(ppl, c2p) # <<>> THEN Roots(ppl, c2p)
  ELSE <<SortByBirthday(ppl)[1]>>

\* queue = startNodes.map(p => ({ id: p.id, gen: 0 }))
InitialQueue(ppl, c2p) ==
  MapSeq(StartNodes(ppl, c2p), LAMBDA p : [id |-> p.id, gen |-> 0])

\* ---------------------------------------------------------------------------
\* calculateLayout: one iteration of the BFS loop (lines 127-150)
\* ---------------------------------------------------------------------------

\* Mutant of BFSStep: the head is read with queue[0] and only shifted after
\* the visited test, so an entry of a visited person is never removed.
BFSStep_PeekWithoutShift(st, p2c, sp, ids) ==
  LET head == Head(st.queue)
      id   == head.id
      gen  == head.gen
      rest == Tail(st.queue)
  IN  IF id \in st.visited
      THEN st
      ELSE
        LET vis1     == st.visited \cup {id}
            gens1    == MapSet(st.generations, id,
                               Max(MapGet(st.generations, id, 0), gen))
            children == SelectSeq(MapGet(p2c, id, <<>>), LAMBDA c : c \in ids)
            q1       == rest \o MapSeq(children,
                                       LAMBDA c : [id |-> c, gen |-> gen + 1])
            spouseList == SelectSeq(MapGet(sp, id, <<>>),
                                    LAMBDA s : s \in ids /\ s \notin vis1)
            gens2    == [x \in (DOMAIN gens1) \cup SeqToSet(spouseList) |->
                           IF x \in SeqToSet(spouseList) THEN gen
                           ELSE gens1[x]]
            q2       == q1 \o MapSeq(spouseList,
                                     LAMBDA s : [id |-> s, gen |-> gen])
        IN  [queue |-> q2, visited |-> vis1, generations |-> gens2]

\* st = [queue, visited, generations]; the queue is not empty.
BFSStep(st, p2c, sp, ids) ==
  LET head == Head(st.queue)
      id   == head.id
      gen  == head.gen
      rest == Tail(st.queue)
  IN  IF id \in st.visited
      THEN [st EXCEPT !.queue = rest]
      ELSE
        LET vis1     == st.visited \cup {id}
            gens1    == MapSet(st.generations, id,
                               Max(MapGet(st.generations, id, 0), gen))
            children == SelectSeq(MapGet(p2c, id, <<>>), LAMBDA c : c \in ids)
            q1       == rest \o MapSeq(children,
                                       LAMBDA c : [id |-> c, gen |-> gen + 1])
            spouseList == SelectSeq(MapGet(sp, id, <<>>),
                                    LAMBDA s : s \in ids /\ s \notin vis1)
            gens2    == [x \in (DOMAIN gens1) \cup SeqToSet(spouseList) |->
                           IF x \in SeqToSet(spouseList) THEN gen
                           ELSE gens1[x]]
            q2       == q1 \o MapSeq(spouseList,
                                     LAMBDA s : [id |-> s, gen |-> gen])
        IN  [queue |-> q2, visited |-> vis1, generations |-> gens2]

\* ---------------------------------------------------------------------------
\* calculateLayout: unvisited persons, rows, positions (lines 152-190)
\* ---------------------------------------------------------------------------

\* Mutant of FillUnvisited: the pass over the unvisited persons is left out.
FillUnvisited_Omitted(gens, ppl) == gens

\* Mutant of FillUnvisited: the persons without a generation get 1, not 0.
FillUnvisited_DefaultOne(gens, ppl) ==
  [x \in (DOMAIN gens) \cup PersonIdSet(ppl) |-> MapGet(gens, x, 1)]

\* people.forEach(p => { if (!generations.has(p.id)) generations.set(p.id, 0) })
FillUnvisited(gens, ppl) ==
  [x \in (DOMAIN gens) \cup PersonIdSet(ppl) |-> MapGet(gens, x, 0)]

\* genGroups.get(g): the persons of generation g, in people order.
GenGroup(ppl, gens, g) == SelectSeq(ppl, LAMBDA p : MapGet(gens, p.id, 0) = g)

MaxGen(ppl, gens) ==
  IF ppl = <<>> THEN 0
  ELSE CHOOSE g \in { MapGet(gens, ppl[i].id, 0) : i \in 1..Len(ppl) } :
         \A i \in 1..Len(ppl) : MapGet(gens, ppl[i].id, 0) <= g

\* Mutant of RowNodes: y is gen * VERTICAL_SPACING, the minus sign is lost.
RowNodes_YNotNegated(group, gen) ==
  LET startX == 0 - (((Len(group) - 1) * HORIZONTAL_SPACING) \div 2)
  IN  [i \in 1..Len(group) |->
         [ id       |-> group[i].id,
           type     |-> "person",
           position |-> [ x |-> startX + (i - 1) * HORIZONTAL_SPACING,
                          y |-> gen * VERTICAL_SPACING ],
           data     |-> [ person |-> group[i] ] ]]

\* Mutant of RowNodes: startX is -(length * HORIZONTAL_SPACING) / 2, the
\* "- 1" is lost (computed in floating point, here in units of 1/2).
RowNodes_StartOffByOne(group, gen) ==
  LET startX == 0 - (Len(group) * HORIZONTAL_SPACING)
  IN  [i \in 1..Len(group) |->
         [ id       |-> group[i].id,
           type     |-> "person",
           position |-> [ x |-> (startX + 2 * (i - 1) * HORIZONTAL_SPACING) \div 2,
                          y |-> 0 - gen * VERTICAL_SPACING ],
           data     |-> [ person |-> group[i] ] ]]

\* Mutant of RowNodes: x is startX for every member, the index step is lost.
RowNodes_NoIndexStep(group, gen) ==
  LET startX == 0 - (((Len(group) - 1) * HORIZONTAL_SPACING) \div 2)
  IN  [i \in 1..Len(group) |->
         [ id       |-> group[i].id,
           type     |-> "person",
           position |-> [ x |-> startX,
                          y |-> 0 - gen * VERTICAL_SPACING ],
           data     |-> [ person |-> group[i] ] ]]

\* The nodes pushed for one row.
RowNodes(group, gen) ==
  LET startX == 0 - (((Len(group) - 1) * HORIZONTAL_SPACING) \div 2)
  IN  [i \in 1..Len(group) |->
         [ id       |-> group[i].id,
           type     |-> "person",
           position |-> [ x |-> startX + (i - 1) * HORIZONTAL_SPACING,
                          y |-> 0 - gen * VERTICAL_SPACING ],
           data     |-> [ person |-> group[i] ] ]]

\* sortedGens.forEach(...): rows in ascending generation order, from g up.
RECURSIVE NodesFrom(_, _, _, _)
NodesFrom(ppl, gens, g, top) ==
  IF g > top THEN <<>>
  ELSE RowNodes(GenGroup(ppl, gens, g), g) \o NodesFrom(ppl, gens, g + 1, top)

\* Mutant of PositionNodes: generation 0 is taken for "no generation" (a
\* falsy test), so the row of generation 0 is not positioned.
PositionNodes_DropsGenZero(ppl, gens) ==
  NodesFrom(ppl, gens, 1, MaxGen(ppl, gens))

PositionNodes(ppl, gens) == NodesFrom(ppl, gens, 0, MaxGen(ppl, gens))

\* ---------------------------------------------------------------------------
\* calculateLayout: edges (lines 49-71, 192-226)
\* ---------------------------------------------------------------------------

\* Mutant of getEdgeStyle: the current-spouse test names 'spouse' only.
getEdgeStyle_PartnerForgotten(relationshipType) ==
  IF relationshipType \in RELATIONSHIP_CATEGORIES.parent
  THEN IF relationshipType = "biological_parent"
       THEN [stroke |-> "#6b7280", strokeWidth |-> 2, strokeDasharray |-> "none"]
       ELSE [stroke |-> "#6b7280", strokeWidth |-> 2, strokeDasharray |-> "5,5"]
  ELSE IF relationshipType \in RELATIONSHIP_CATEGORIES.spouse
  THEN IF relationshipType = "spouse"
       THEN [stroke |-> "#ec4899", strokeWidth |-> 3, strokeDasharray |-> "none"]
       ELSE [stroke |-> "#ec4899", strokeWidth |-> 2, strokeDasharray |-> "5,5"]
  ELSE IF relationshipType \in RELATIONSHIP_CATEGORIES.sibling
  THEN [stroke |-> "#3b82f6", strokeWidth |-> 2, strokeDasharray |-> "none"]
  ELSE [stroke |-> "#6b7280", strokeWidth |-> 2, strokeDasharray |-> "none"]

getEdgeStyle(relationshipType) ==
  IF relationshipType \in RELATIONSHIP_CATEGORIES.parent
  THEN IF relationshipType = "biological_parent"
       THEN [stroke |-> "#6b7280", strokeWidth |-> 2, strokeDasharray |-> "none"]
       ELSE [stroke |-> "#6b7280", strokeWidth |-> 2, strokeDasharray |-> "5,5"]
  ELSE IF relationshipType \in RELATIONSHIP_CATEGORIES.spouse
  THEN IF relationshipType = "spouse" \/ relationshipType = "partner"
       THEN [stroke |-> "#ec4899", strokeWidth |-> 3, strokeDasharray |-> "none"]
       ELSE [stroke |-> "#ec4899", strokeWidth |-> 2, strokeDasharray |-> "5,5"]
  ELSE IF relationshipType \in RELATIONSHIP_CATEGORIES.sibling
  THEN [stroke |-> "#3b82f6", strokeWidth |-> 2, strokeDasharray |-> "none"]
  ELSE [stroke |-> "#6b7280", strokeWidth |-> 2, strokeDasharray |-> "none"]

\* Mutant of MakeEdge: the handles are set for current spouses only.
MakeEdge_HandlesForCurrentOnly(rel) ==
  LET current == rel.relationship_type \in {"spouse", "partner"}
  IN  [ id           |-> rel.id,
        source       |-> rel.person1_id,
        target       |-> rel.person2_id,
        sourceHandle |-> IF current THEN "right" ELSE "undefined",
        targetHandle |-> IF current THEN "left" ELSE "undefined",
        style        |-> getEdgeStyle(rel.relationship_type),
        type         |-> "smoothstep" ]

\* The edge pushed for one relationship.
MakeEdge(rel) ==
  [ id           |-> rel.id,
    source       |-> rel.person1_id,
    target       |-> rel.person2_id,
    sourceHandle |-> IF IsSpouseRel(rel) THEN "right" ELSE "undefined",
    targetHandle |-> IF IsSpouseRel(rel) THEN "left" ELSE "undefined",
    style        |-> getEdgeStyle(rel.relationship_type),
    type         |-> "smoothstep" ]

\* Mutant of EdgesFrom: the addedEdges test is left out.
RECURSIVE EdgesFrom_NoDedup(_, _, _)
EdgesFrom_NoDedup(rels, ids, addedEdges) ==
  IF rels = <<>> THEN <<>>
  ELSE LET rel == Head(rels)
       IN  IF rel.person1_id \notin ids \/ rel.person2_id \notin ids
           THEN EdgesFrom_NoDedup(Tail(rels), ids, addedEdges)
           ELSE <<MakeEdge(rel)>>
                \o EdgesFrom_NoDedup(Tail(rels), ids, addedEdges)

\* relationships.forEach(...) with the addedEdges set.
RECURSIVE EdgesFrom(_, _, _)
EdgesFrom(rels, ids, addedEdges) ==
  IF rels = <<>> THEN <<>>
  ELSE LET rel == Head(rels)
       IN  IF rel.person1_id \notin ids \/ rel.person2_id \notin ids
           THEN EdgesFrom(Tail(rels), ids, addedEdges)
           ELSE IF rel.id \in addedEdges
           THEN EdgesFrom(Tail(rels), ids, addedEdges)
           ELSE <<MakeEdge(rel)>>
                \o EdgesFrom(Tail(rels), ids, addedEdges \cup {rel.id})

\* Mutant of CreateEdges: the test that both endpoints are in the people list
\* is left out.
CreateEdges_NoPresenceCheck(rels, ids) == EdgesFrom(rels, AllIds, {})

CreateEdges(rels, ids) == EdgesFrom(rels, ids, {})

\* ---------------------------------------------------------------------------
\* calculateLayout as a function of its two arguments (lines 77-229)
\* ---------------------------------------------------------------------------

\* while (queue.length > 0) { ... } run to its end.
RECURSIVE BFSRun(_, _, _, _)
BFSRun(st, p2c, sp, ids) ==
  IF st.queue = <<>> THEN st
  ELSE BFSRun(BFSStep(st, p2c, sp, ids), p2c, sp, ids)

\* What one call returns (nodes, edges), the generation map it computed and
\* the people array as the call leaves it.
CalculateLayout(ppl, rels) ==
  IF Len(ppl) = 0
  THEN [nodes |-> <<>>, edges |-> <<>>, generations |-> EmptyMap, people |-> ppl]
  ELSE LET c2p  == ChildToParents(rels)
           ids  == PersonIdSet(ppl)
           ppl1 == PeopleAfterStart(ppl, c2p)
           st   == BFSRun([queue |-> InitialQueue(ppl, c2p), visited |-> {},
                           generations |-> EmptyMap],
                          ParentToChildren(rels), Spouses(rels), ids)
           gens == FillUnvisited(st.generations, ppl1)
       IN  [nodes |-> PositionNodes(ppl1, gens),
            edges |-> CreateEdges(rels, ids),
            generations |-> gens,
            people |-> ppl1]

\* ---------------------------------------------------------------------------
\* Relationship creation (AddRelationshipForm.handleFormSubmit ->
\* useCreateRelationship -> relationshipsApi.create -> relationships table)
\* ---------------------------------------------------------------------------

\* Longest relationships table built by successive creations.
MaxRows == 2

FormCategories == {"parent", "child", "spouse", "sibling", "none"}

\* getRelationshipOptions(category): the types the form offers.
getRelationshipOptions(category) ==
  CASE category = "parent"  -> RELATIONSHIP_CATEGORIES.parent
    [] category = "child"   -> RELATIONSHIP_CATEGORIES.parent
    [] category = "spouse"  -> RELATIONSHIP_CATEGORIES.spouse
    [] category = "sibling" -> RELATIONSHIP_CATEGORIES.sibling
    [] OTHER -> RELATIONSHIP_CATEGORIES.parent \cup RELATIONSHIP_CATEGORIES.spouse
                \cup RELATIONSHIP_CATEGORIES.sibling

\* handleFormSubmit: the payload handed to onSubmit.  person1Id is the person
\* whose page the form is on, selected is data.person2_id.
handleFormSubmit(person1Id, selected, defaultCategory, relationshipType) ==
  [ person1_id        |-> IF defaultCategory = "child" THEN person1Id ELSE selected,
    person2_id        |-> IF defaultCategory = "child" THEN selected ELSE person1Id,
    relationship_type |-> relationshipType ]

\* [a, b].sort(): the two ids in ascending string order.
SortPair(a, b) == IF b < a THEN <<b, a>> ELSE <<a, b>>

\* relationshipsApi.create: the row handed to insert().
CreateRow(relationship, newId) ==
  LET pair == SortPair(relationship.person1_id, relationship.person2_id)
  IN  [ id                |-> newId,
        person1_id        |-> pair[1],
        person2_id        |-> pair[2],
        relationship_type |-> relationship.relationship_type ]

\* CONSTRAINT different_people CHECK (person1_id <> person2_id)
different_people(row) == row.person1_id # row.person2_id

\* ---------------------------------------------------------------------------
\* State
\* ---------------------------------------------------------------------------

\* Most calls made in a row on the same two arrays.
MaxCalls == 2

VARIABLES
  people,            \* the caller's people array (calculateLayout sorts it in place)
  relationships,     \* the caller's relationships array
  callerPeople,      \* history: the people array as it was when the call began
  pc,                \* position in calculateLayout: "start", "bfs", "done"
  childToParents,    \* adjacency maps
  parentToChildren,
  spouses,
  personIds,         \* new Set(people.map(p => p.id))
  startNodes,        \* history: the start nodes the traversal was seeded with
  queue,             \* BFS work queue of {id, gen}
  visited,           \* BFS visited set
  generations,       \* Map id -> generation
  nodes,             \* returned nodes
  edges,             \* returned edges
  calls,             \* number of calls begun on these arrays
  prevResult,        \* history: the previous call on these arrays
  enqueued,          \* history: every {id, gen} entry ever put on the queue
  table,             \* rows of the relationships table
  requests           \* history: the payload relationshipsApi.create got per row

vars == << people, relationships, callerPeople, pc, childToParents,
           parentToChildren, spouses, personIds, startNodes, queue, visited,
           generations, nodes, edges, calls, prevResult, enqueued, table,
           requests >>

layoutVars == << people, relationships, callerPeople, pc, childToParents,
                 parentToChildren, spouses, personIds, startNodes, queue,
                 visited, generations, nodes, edges, calls, prevResult,
                 enqueued >>

NoMaps == [x \in {} |-> <<>>]

NoResult == [nodes |-> <<>>, edges |-> <<>>, callerPeople |-> <<>>]

\* The locals of a call before its first statement.
FreshLocals ==
  /\ childToParents = NoMaps
  /\ parentToChildren = NoMaps
  /\ spouses = NoMaps
  /\ personIds = {}
  /\ startNodes = <<>>
  /\ queue = <<>>
  /\ visited = {}
  /\ generations = EmptyMap
  /\ nodes = <<>>
  /\ edges = <<>>
  /\ enqueued = {}

\* A caller holds some people list and some relationships list and calls
\* calculateLayout(people, relationships).
Init ==
  /\ people \in PeopleLists
  /\ relationships \in RelLists
  /\ callerPeople = people
  /\ pc = "start"
  /\ FreshLocals
  /\ calls = 1
  /\ prevResult = NoResult
  /\ table = <<>>
  /\ requests = <<>>

\* ---------------------------------------------------------------------------
\* Actions of calculateLayout
\* ---------------------------------------------------------------------------

\* Mutant of ReturnEmpty: without the early return the code goes on to
\* [people.sort(...)[0]] = [undefined] and startNodes.map(p => p.id) throws.
ReturnEmpty_Throws ==
  /\ pc = "start"
  /\ Len(people) = 0
  /\ pc' = "threw"
  /\ UNCHANGED << people, relationships, callerPeople, childToParents,
                  parentToChildren, spouses, personIds, startNodes, queue,
                  visited, generations, nodes, edges, calls, prevResult,
                  enqueued, table, requests >>

\* lines 81-83: if (people.length === 0) return { nodes: [], edges: [] }
ReturnEmpty ==
  /\ pc = "start"
  /\ Len(people) = 0
  /\ pc' = "done"
  /\ nodes' = <<>>
  /\ edges' = <<>>
  /\ UNCHANGED << people, relationships, callerPeople, childToParents,
                  parentToChildren, spouses, personIds, startNodes, queue,
                  visited, generations, calls, prevResult, enqueued, table,
                  requests >>

\* lines 85-125: adjacency maps, personIds, roots, start nodes (with the
\* in-place sort of people when there is no root), initial queue.
Begin ==
  /\ pc = "start"
  /\ Len(people) # 0
  /\ childToParents' = ChildToParents(relationships)
  /\ parentToChildren' = ParentToChildren(relationships)
  /\ spouses' = Spouses(relationships)
  /\ personIds' = PersonIdSet(people)
  /\ people' = PeopleAfterStart(people, ChildToParents(relationships))
  /\ startNodes' = StartNodes(people, ChildToParents(relationships))
  /\ queue' = InitialQueue(people, ChildToParents(relationships))
  /\ enqueued' = SeqToSet(InitialQueue(people, ChildToParents(relationships)))
  /\ visited' = {}
  /\ generations' = EmptyMap
  /\ pc' = "bfs"
  /\ UNCHANGED << relationships, callerPeople, nodes, edges, calls, prevResult,
                  table, requests >>

\* The entries an iteration pushed: those behind the ones that were already
\* waiting when it began.
Pushed(before, after) ==
  IF Len(after) < Len(before) THEN {}
  ELSE { after[i] : i \in Len(before)..Len(after) }

\* lines 127-150: one iteration of while (queue.length > 0)
Dequeue ==
  /\ pc = "bfs"
  /\ queue # <<>>
  /\ LET st == BFSStep([queue |-> queue, visited |-> visited,
                        generations |-> generations],
                       parentToChildren, spouses, personIds)
     IN  /\ queue' = st.queue
         /\ visited' = st.visited
         /\ generations' = st.generations
         /\ enqueued' = enqueued \cup Pushed(queue, st.queue)
  /\ UNCHANGED << people, relationships, callerPeople, pc, childToParents,
                  parentToChildren, spouses, personIds, startNodes, nodes,
                  edges, calls, prevResult, table, requests >>

\* lines 152-228: the loop has ended; unvisited persons get generation 0,
\* rows are positioned, edges are created, and the call returns.
Finish ==
  /\ pc = "bfs"
  /\ queue = <<>>
  /\ generations' = FillUnvisited(generations, people)
  /\ nodes' = PositionNodes(people, FillUnvisited(generations, people))
  /\ edges' = CreateEdges(relationships, personIds)
  /\ pc' = "done"
  /\ UNCHANGED << people, relationships, callerPeople, childToParents,
                  parentToChildren, spouses, personIds, startNodes, queue,
                  visited, calls, prevResult, enqueued, table, requests >>

\* The caller (FamilyTree's useMemo) calls calculateLayout again with the
\* very same arrays; every local of the function is new.
CallAgain ==
  /\ pc = "done"
  /\ calls < MaxCalls
  /\ calls' = calls + 1
  /\ prevResult' = [nodes |-> nodes, edges |-> edges,
                    callerPeople |-> callerPeople]
  /\ callerPeople' = people
  /\ pc' = "start"
  /\ childToParents' = NoMaps
  /\ parentToChildren' = NoMaps
  /\ spouses' = NoMaps
  /\ personIds' = {}
  /\ startNodes' = <<>>
  /\ queue' = <<>>
  /\ visited' = {}
  /\ generations' = EmptyMap
  /\ nodes' = <<>>
  /\ edges' = <<>>
  /\ enqueued' = {}
  /\ UNCHANGED << people, relationships, table, requests >>

Next == ReturnEmpty \/ Begin \/ Dequeue \/ Finish

\* One call of calculateLayout on any input.
Spec == Init /\ [][Next]_vars

\* calculateLayout is synchronous code: once called it runs to its return.
FairSpec == Spec /\ WF_vars(Next)

NextRepeat == Next \/ CallAgain

\* Successive calls on the same arrays.
SpecRepeat == Init /\ [][NextRepeat]_vars

\* ---------------------------------------------------------------------------
\* Calls whose relationships may share ids
\* ---------------------------------------------------------------------------

\* People lists whose persons all have the same birthday (edge creation
\* reads no birthday).
SameAgePeopleLists ==
  { [i \in 1..n |-> [id |-> i, birthday |-> 1950]] :
      n \in 0..Cardinality(PersonIds) }

\* The ids of a list of k relationships in which a relationship has the id
\* of an earlier one or an id of its own: the i-th id is drawn from 1..i.
SharedIds(k) == { d \in [1..k -> 1..k] : \A i \in 1..k : d[i] <= i }

\* The list with endpoints and types f and ids d.
RelListOf(f, d) ==
  [i \in 1..Len(f) |-> [id |-> d[i], person1_id |-> f[i][1],
                        person2_id |-> f[i][2],
                        relationship_type |-> f[i][3]]]

InitSharedIds ==
  /\ people \in SameAgePeopleLists
  /\ \E k \in 0..MaxRels :
       \E f \in [1..k -> PersonIds \X PersonIds \X InputTypes] :
         \E d \in SharedIds(k) : relationships = RelListOf(f, d)
  /\ callerPeople = people
  /\ pc = "start"
  /\ FreshLocals
  /\ calls = 1
  /\ prevResult = NoResult
  /\ table = <<>>
  /\ requests = <<>>

SpecSharedIds == InitSharedIds /\ [][Next]_vars

\* ---------------------------------------------------------------------------
\* Calls whose relationships are of any of the 13 types
\* ---------------------------------------------------------------------------

\* Longest relationships list of a call with relationships of any type.
MaxTypedRels == 1

RelationshipTypes ==
  RELATIONSHIP_CATEGORIES.parent \cup RELATIONSHIP_CATEGORIES.spouse
    \cup RELATIONSHIP_CATEGORIES.sibling

TypedRelLists ==
  UNION { { [i \in 1..k |-> [id |-> i, person1_id |-> f[i][1],
                             person2_id |-> f[i][2],
                             relationship_type |-> f[i][3]]] :
              f \in [1..k -> PersonIds \X PersonIds \X RelationshipTypes] } :
          k \in 0..MaxTypedRels }

InitAllTypes ==
  /\ people \in SameAgePeopleLists
  /\ relationships \in TypedRelLists
  /\ callerPeople = people
  /\ pc = "start"
  /\ FreshLocals
  /\ calls = 1
  /\ prevResult = NoResult
  /\ table = <<>>
  /\ requests = <<>>

SpecAllTypes == InitAllTypes /\ [][Next]_vars

\* calculateLayout on the family of six: the first n persons of FamilyPeople
\* (the others are absent) and any selection of FamilyRelationships in any
\* order.
InitFamily ==
  /\ \E n \in 0..Len(FamilyPeople) : people = SubSeq(FamilyPeople, 1, n)
  /\ \E k \in 0..Len(FamilyRelationships) :
       \E o \in [1..k -> DOMAIN FamilyRelationships] :
         /\ \A i, j \in 1..k : o[i] = o[j] => i = j
         /\ relationships = [i \in 1..k |-> FamilyRelationships[o[i]]]
  /\ callerPeople = people
  /\ pc = "start"
  /\ FreshLocals
  /\ calls = 1
  /\ prevResult = NoResult
  /\ table = <<>>
  /\ requests = <<>>

SpecFamily == InitFamily /\ [][Next]_vars

\* calculateLayout on the household of five: the first n persons of
\* HouseholdPeople and any selection of HouseholdRelationships in any order.
InitHousehold ==
  /\ \E n \in 0..Len(HouseholdPeople) :
       people = SubSeq(HouseholdPeople, 1, n)
  /\ \E k \in 0..Len(HouseholdRelationships) :
       \E o \in [1..k -> DOMAIN HouseholdRelationships] :
         /\ \A i, j \in 1..k : o[i] = o[j] => i = j
         /\ relationships = [i \in 1..k |-> HouseholdRelationships[o[i]]]
  /\ callerPeople = people
  /\ pc = "start"
  /\ FreshLocals
  /\ calls = 1
  /\ prevResult = NoResult
  /\ table = <<>>
  /\ requests = <<>>

SpecHousehold == InitHousehold /\ [][Next]_vars

\* ---------------------------------------------------------------------------
\* Actions of relationship creation
\* ---------------------------------------------------------------------------

InitCreate ==
  /\ people = <<>>
  /\ relationships = <<>>
  /\ callerPeople = <<>>
  /\ pc = "idle"
  /\ FreshLocals
  /\ calls = 0
  /\ prevResult = NoResult
  /\ table = <<>>
  /\ requests = <<>>

\* The user submits AddRelationshipForm on person1Id's page: the form never
\* offers person1Id itself (availablePeople), handleFormSubmit builds the
\* payload, relationshipsApi.create normalises and inserts it; the table
\* rejects a row that breaks different_people.
CreateRelationship ==
  /\ pc = "idle"
  /\ Len(table) < MaxRows
  /\ \E person1Id \in PersonIds, selected \in PersonIds,
        defaultCategory \in FormCategories :
       \E relationshipType \in getRelationshipOptions(defaultCategory) :
         LET payload == handleFormSubmit(person1Id, selected, defaultCategory,
                                         relationshipType)
             row     == CreateRow(payload, Len(table) + 1)
         IN  /\ selected # person1Id
             /\ different_people(row)
             /\ table' = Append(table, row)
             /\ requests' = Append(requests, payload)
  /\ UNCHANGED layoutVars

NextCreate == CreateRelationship

SpecCreate == InitCreate /\ [][NextCreate]_vars

\* ---------------------------------------------------------------------------
\* Vocabulary of the properties
\* ---------------------------------------------------------------------------

Done == pc = "done"

\* Ids of the persons of the list the caller passed.
InputIds == PersonIdSet(callerPeople)

NodeIds == { nodes[i].id : i \in 1..Len(nodes) }

RelIndexes == 1..Len(relationships)

BothPresent(rel) == rel.person1_id \in InputIds /\ rel.person2_id \in InputIds

\* The relationships whose two endpoints are in the people list.
PresentOnly(rels, ppl) ==
  SelectSeq(rels, LAMBDA r : r.person1_id \in PersonIdSet(ppl)
                             /\ r.person2_id \in PersonIdSet(ppl))

\* Parent -> child pairs of the parent-category relationships.
ParentPairs(rels) ==
  { <<rels[i].person1_id, rels[i].person2_id>> :
      i \in { j \in 1..Len(rels) : IsParentRel(rels[j]) } }

\* Ids reached from the set S along at most n parent -> child pairs.
RECURSIVE Descendants(_, _, _)
Descendants(E, S, n) ==
  IF n = 0 THEN S
  ELSE Descendants(E, S \cup { e[2] : e \in { d \in E : d[1] \in S } }, n - 1)

HasParentCycle(rels) ==
  \E x \in AllIds :
    x \in Descendants(ParentPairs(rels),
                      { e[2] : e \in { d \in ParentPairs(rels) : d[1] = x } },
                      Cardinality(AllIds))

\* Final generation of a person once the call has returned.
Generation(id) == MapGet(generations, id, 0)

\* ---------------------------------------------------------------------------
\* C1: for every parent-category relationship (p, c) with both endpoints in
\* the people list, and when the parent-category relationships contain no
\* cycle, the returned layout has generation(c) >= generation(p) + 1.
\* ---------------------------------------------------------------------------
C1_ChildBelowParent ==
  (Done /\ ~HasParentCycle(relationships)) =>
    \A i \in RelIndexes :
      (IsParentRel(relationships[i]) /\ BothPresent(relationships[i])) =>
        Generation(relationships[i].person2_id)
          >= Generation(relationships[i].person1_id) + 1

\* ---------------------------------------------------------------------------
\* C2: for every spouse-category relationship (a, b) with both endpoints in
\* the people list, generation(a) = generation(b).
\* ---------------------------------------------------------------------------
C2_SpousesSameGeneration ==
  Done =>
    \A i \in RelIndexes :
      (IsSpouseRel(relationships[i]) /\ BothPresent(relationships[i])) =>
        Generation(relationships[i].person1_id)
          = Generation(relationships[i].person2_id)

\* ---------------------------------------------------------------------------
\* C3: the returned node list holds exactly one node per input person and no
\* other node, and each node carries the input person with that id.
\* ---------------------------------------------------------------------------
C3_OneNodePerPerson ==
  Done =>
    /\ Len(nodes) = Len(callerPeople)
    /\ \A k \in 1..Len(callerPeople) :
         /\ Cardinality({ i \in 1..Len(nodes) :
                            nodes[i].id = callerPeople[k].id }) = 1
         /\ \A i \in 1..Len(nodes) :
              nodes[i].id = callerPeople[k].id =>
                nodes[i].data.person = callerPeople[k]
    /\ NodeIds \subseteq InputIds

C3_Witness ==
  /\ Done
  /\ Len(callerPeople) = 3
  /\ \E i, j \in 1..Len(nodes) : nodes[i].position.y # nodes[j].position.y
  /\ \E i, j \in 1..Len(nodes) :
       i # j /\ nodes[i].position.y = nodes[j].position.y

\* ---------------------------------------------------------------------------
\* C4: every returned edge has its source and its target among the ids of the
\* returned nodes; a relationship with an endpoint that is not in the people
\* list produces no edge.
\* ---------------------------------------------------------------------------
C4_EdgesBetweenNodes ==
  Done =>
    /\ \A e \in 1..Len(edges) :
         edges[e].source \in NodeIds /\ edges[e].target \in NodeIds
    /\ \A i \in RelIndexes :
         ~BothPresent(relationships[i]) =>
           \A e \in 1..Len(edges) : edges[e].id # relationships[i].id

C4_Witness ==
  /\ Done
  /\ Len(edges) = 1
  /\ \E i \in RelIndexes : ~BothPresent(relationships[i])

\* ---------------------------------------------------------------------------
\* C5: relationships that reference a person who is not in the people list
\* are ignored entirely: the call returns what it returns for the same
\* people and only the relationships with both endpoints present (same
\* generation and position of every node, same edges).
\* ---------------------------------------------------------------------------
C5_DanglingIgnored ==
  Done =>
    LET clean == CalculateLayout(callerPeople,
                                 PresentOnly(relationships, callerPeople))
    IN  /\ SeqToSet(nodes) = SeqToSet(clean.nodes)
        /\ SeqToSet(edges) = SeqToSet(clean.edges)
        /\ \A id \in InputIds : Generation(id) = MapGet(clean.generations, id, 0)

\* ---------------------------------------------------------------------------
\* C6: the generation traversal terminates on every input, parent cycles,
\* self-parents and spouse cycles included: the call reaches its return.
\* ---------------------------------------------------------------------------
C6_TraversalTerminates == <>(pc = "done")

C6_Witness ==
  /\ Done
  /\ Len(callerPeople) >= 2
  /\ \E i, j \in RelIndexes :
       /\ IsParentRel(relationships[i]) /\ IsParentRel(relationships[j])
       /\ BothPresent(relationships[i])
       /\ relationships[i].person1_id # relationships[i].person2_id
       /\ relationships[j].person1_id = relationships[i].person2_id
       /\ relationships[j].person2_id = relationships[i].person1_id
  /\ Cardinality(visited) >= 2

\* ---------------------------------------------------------------------------
\* C7: the call leaves its inputs as they were: the people list and the
\* relationships list hold the same elements in the same order afterwards.
\* ---------------------------------------------------------------------------
C7_InputsUntouched == Done => people = callerPeople

\* ---------------------------------------------------------------------------
\* C8: a second call on the very same lists, after a first call returned,
\* gives the same position for every node and the same set of edges.
\* ---------------------------------------------------------------------------
C8_RepeatCallSameResult ==
  (Done /\ calls >= 2) =>
    /\ SeqToSet(nodes) = SeqToSet(prevResult.nodes)
    /\ SeqToSet(edges) = SeqToSet(prevResult.edges)

C8_Witness ==
  /\ Done
  /\ calls = 2
  /\ prevResult.callerPeople # people
  /\ Len(nodes) >= 2
  /\ Len(edges) >= 1

\* ---------------------------------------------------------------------------
\* C9: a parent-category relationship handed to relationshipsApi.create with
\* person1_id = the parent and person2_id = the child is stored with
\* person1_id = the parent and person2_id = the child.
\* ---------------------------------------------------------------------------
C9_ParentStoredAsPerson1 ==
  \A i \in 1..Len(table) :
    requests[i].relationship_type \in RELATIONSHIP_CATEGORIES.parent =>
      /\ table[i].person1_id = requests[i].person1_id
      /\ table[i].person2_id = requests[i].person2_id

\* ---------------------------------------------------------------------------
\* C10: after the generation phase every person of the people list has
\* exactly one generation value, an integer >= 0.
\* ---------------------------------------------------------------------------
C10_GenerationTotalNonNegative ==
  (Done /\ Len(callerPeople) > 0) =>
    \A id \in InputIds : id \in DOMAIN generations /\ generations[id] \in Nat

C10_Witness ==
  /\ Done
  /\ \E id \in InputIds : id \notin visited
  /\ \E id \in InputIds : Generation(id) >= 1

\* ---------------------------------------------------------------------------
\* C11: with pairwise distinct relationship ids there is exactly one edge for
\* every relationship whose two endpoints are in the people list, with the
\* relationship's id, source = person1_id and target = person2_id; when
\* relationships share an id there is at most one edge with that id, the edge
\* of the first of them (in input order) whose endpoints are both present.
\* ---------------------------------------------------------------------------
DistinctRelIds ==
  \A i, j \in RelIndexes : i # j => relationships[i].id # relationships[j].id

EdgesWithId(id) == { e \in 1..Len(edges) : edges[e].id = id }

\* The first relationship with this id whose endpoints are both present.
FirstPresentWithId(i) ==
  /\ BothPresent(relationships[i])
  /\ \A j \in 1..(i - 1) :
       relationships[j].id = relationships[i].id => ~BothPresent(relationships[j])

C11_OneEdgePerRelationship ==
  Done =>
    /\ DistinctRelIds =>
         /\ \A i \in RelIndexes :
              BothPresent(relationships[i]) =>
                /\ Cardinality(EdgesWithId(relationships[i].id)) = 1
                /\ \A e \in EdgesWithId(relationships[i].id) :
                     /\ edges[e].source = relationships[i].person1_id
                     /\ edges[e].target = relationships[i].person2_id
         /\ Len(edges) = Len(PresentOnly(relationships, callerPeople))
    /\ \A i \in RelIndexes :
         /\ Cardinality(EdgesWithId(relationships[i].id)) <= 1
         /\ FirstPresentWithId(i) =>
              \E e \in EdgesWithId(relationships[i].id) :
                /\ edges[e].source = relationships[i].person1_id
                /\ edges[e].target = relationships[i].person2_id

C11_Witness ==
  /\ Done
  /\ Len(edges) = 1
  /\ \E i, j \in RelIndexes :
       /\ i < j
       /\ relationships[i].id = relationships[j].id
       /\ BothPresent(relationships[i]) /\ BothPresent(relationships[j])
       /\ relationships[i].person1_id # relationships[j].person1_id

\* ---------------------------------------------------------------------------
\* C12: a call with an empty people list returns an empty node list and an
\* empty edge list, whatever the relationships list holds.
\* ---------------------------------------------------------------------------
C12_EmptyPeopleEmptyResult ==
  (Len(callerPeople) = 0 /\ pc # "start") =>
    (pc = "done" /\ nodes = <<>> /\ edges = <<>>)

C12_Witness ==
  /\ Done
  /\ Len(callerPeople) = 0
  /\ Len(relationships) >= 2
  /\ \E i \in RelIndexes : IsParentRel(relationships[i])

\* ---------------------------------------------------------------------------
\* C13: the style of an edge is a function of relationship_type alone:
\* biological_parent solid grey width 2; the other parent types dashed grey
\* width 2; spouse and partner solid pink width 3; ex_spouse and ex_partner
\* dashed pink width 2; the sibling types solid blue width 2.  An edge is
\* dashed exactly for the non-biological parent types and the ex_ types.
\* ---------------------------------------------------------------------------
StatedStyle(t) ==
  CASE t = "biological_parent" ->
         [stroke |-> "#6b7280", strokeWidth |-> 2, strokeDasharray |-> "none"]
    [] t \in {"adoptive_parent", "step_parent", "foster_parent", "guardian"} ->
         [stroke |-> "#6b7280", strokeWidth |-> 2, strokeDasharray |-> "5,5"]
    [] t \in {"spouse", "partner"} ->
         [stroke |-> "#ec4899", strokeWidth |-> 3, strokeDasharray |-> "none"]
    [] t \in {"ex_spouse", "ex_partner"} ->
         [stroke |-> "#ec4899", strokeWidth |-> 2, strokeDasharray |-> "5,5"]
    [] t \in {"sibling", "half_sibling", "step_sibling", "adopted_sibling"} ->
         [stroke |-> "#3b82f6", strokeWidth |-> 2, strokeDasharray |-> "none"]

DashedTypes ==
  {"adoptive_parent", "step_parent", "foster_parent", "guardian",
   "ex_spouse", "ex_partner"}

\* The relationship an edge was made from (relationship ids are distinct).
EdgeOf(i, e) == edges[e].id = relationships[i].id

C13_StyleByType ==
  Done =>
    \A i \in RelIndexes : \A e \in 1..Len(edges) :
      EdgeOf(i, e) =>
        /\ edges[e].style = StatedStyle(relationships[i].relationship_type)
        /\ (edges[e].style.strokeDasharray # "none")
             <=> (relationships[i].relationship_type \in DashedTypes)

C13_Witness ==
  /\ Done
  /\ \E i \in RelIndexes : \E e \in 1..Len(edges) :
       /\ EdgeOf(i, e)
       /\ relationships[i].relationship_type = "partner"
       /\ edges[e].style.strokeWidth = 3

\* ---------------------------------------------------------------------------
\* C14: an edge has sourceHandle 'right' and targetHandle 'left' exactly when
\* its relationship is spouse-category; every parent-category and
\* sibling-category edge has both handles undefined.
\* ---------------------------------------------------------------------------
C14_HandlesForSpouseCategory ==
  Done =>
    \A i \in RelIndexes : \A e \in 1..Len(edges) :
      EdgeOf(i, e) =>
        IF relationships[i].relationship_type \in
             {"spouse", "ex_spouse", "partner", "ex_partner"}
        THEN edges[e].sourceHandle = "right" /\ edges[e].targetHandle = "left"
        ELSE edges[e].sourceHandle = "undefined"
             /\ edges[e].targetHandle = "undefined"

C14_Witness ==
  /\ Done
  /\ \E i \in RelIndexes : \E e \in 1..Len(edges) :
       /\ EdgeOf(i, e)
       /\ relationships[i].relationship_type = "ex_partner"
       /\ edges[e].sourceHandle = "right"

\* ---------------------------------------------------------------------------
\* C15: every node has y = -(generation) * 200; a lone person is at y = 0;
\* with two people and the single relationship "p biological_parent of c"
\* the parent is at y = 0 and the child at y = -200.
\* ---------------------------------------------------------------------------
NodeOf(id) == CHOOSE i \in 1..Len(nodes) : nodes[i].id = id

RowOf(k) == { j \in 1..Len(nodes) : nodes[j].position.y = nodes[k].position.y }

IndexInRow(k) == Cardinality({ j \in RowOf(k) : j < k })

RECURSIVE SumX(_)
SumX(idx) ==
  IF idx = {} THEN 0
  ELSE LET j == CHOOSE j \in idx : TRUE
       IN  nodes[j].position.x + SumX(idx \ {j})

C16_HorizontalCoordinate ==
  Done =>
    \A k \in 1..Len(nodes) :
      LET n == Cardinality(RowOf(k))
          i == IndexInRow(k)
      IN  /\ 2 * nodes[k].position.x = 0 - (n - 1) * 250 + 2 * i * 250
          /\ SumX(RowOf(k)) = 0
          /\ n = 1 => nodes[k].position.x = 0
          /\ n = 2 => nodes[k].position.x = (IF i = 0 THEN 0 - 125 ELSE 125)
          /\ \A j \in RowOf(k) :
               IndexInRow(j) = i + 1 =>
                 nodes[j].position.x = nodes[k].position.x + 250

C16_Witness ==
  /\ Done
  /\ \E k \in 1..Len(nodes) : Cardinality(RowOf(k)) = 2
  /\ \E k \in 1..Len(nodes) : Cardinality(RowOf(k)) = 1

\* ---------------------------------------------------------------------------
\* C17: the final generation of a person is the maximum generation over all
\* the queue entries enqueued for that person during the traversal (start
\* entries at 0, child entries at the parent's generation + 1, spouse entries
\* at the partner's generation).
\* ---------------------------------------------------------------------------
EntryGens(id) == { en.gen : en \in { x \in enqueued : x.id = id } }

C17_FinalIsMaxOverEntries ==
  Done =>
    \A id \in InputIds :
      EntryGens(id) # {} =>
        /\ Generation(id) \in EntryGens(id)
        /\ \A g \in EntryGens(id) : g <= Generation(id)

\* ---------------------------------------------------------------------------
\* C18: during the traversal the generation recorded for a person never
\* decreases: once a value is recorded, every later update of it is
\* max(current, newly observed).
\* ---------------------------------------------------------------------------
C18_RecordedNeverDecreases ==
  [][ pc = "bfs" =>
        \A id \in DOMAIN generations :
          /\ id \in DOMAIN generations'
          /\ generations'[id] >= generations[id] ]_vars

\* ---------------------------------------------------------------------------
\* C19: when every person of the people list has at least one recorded
\* parent (there is no root candidate), the traversal starts from exactly one
\* person, the one with the earliest birthday (the first such in input order
\* when birthdays tie), and that person's final generation is 0.
\* ---------------------------------------------------------------------------
NoRootCandidate ==
  /\ callerPeople # <<>>
  /\ Roots(callerPeople, ChildToParents(relationships)) = <<>>

\* The position, in the caller's list, of the first person with the earliest
\* birthday.
FirstOldest ==
  CHOOSE i \in 1..Len(callerPeople) :
    /\ \A j \in 1..Len(callerPeople) :
         callerPeople[j].birthday >= callerPeople[i].birthday
    /\ \A j \in 1..(i - 1) :
         callerPeople[j].birthday > callerPeople[i].birthday

C19_FallbackStartsAtOldest ==
  (Done /\ NoRootCandidate) =>
    /\ Len(startNodes) = 1
    /\ startNodes[1] = callerPeople[FirstOldest]
    /\ Generation(callerPeople[FirstOldest].id) = 0

C19_Witness ==
  /\ Done
  /\ NoRootCandidate
  /\ Len(callerPeople) >= 2
  /\ FirstOldest > 1
  /\ startNodes[1] = callerPeople[FirstOldest]
  /\ \E id \in InputIds : Generation(id) > 0

\* ---------------------------------------------------------------------------
\* C20: when at least one person has no recorded parent, every such root
\* candidate is a traversal start point and ends with final generation 0,
\* whatever spouse or child links it has.
\* ---------------------------------------------------------------------------
RootCandidates == Roots(callerPeople, ChildToParents(relationships))

C20_RootsStartAtZero ==
  (Done /\ RootCandidates # <<>>) =>
    \A i \in 1..Len(RootCandidates) :
      /\ \E k \in 1..Len(startNodes) : startNodes[k] = RootCandidates[i]
      /\ [id |-> RootCandidates[i].id, gen |-> 0] \in enqueued
      /\ Generation(RootCandidates[i].id) = 0

C20_Witness ==
  /\ Done
  /\ Len(RootCandidates) >= 2
  /\ \E i \in 1..Len(RootCandidates) :
       /\ RootCandidates[i].id \in DOMAIN spouses
       /\ \E k \in 1..Len(spouses[RootCandidates[i].id]) :
            Generation(spouses[RootCandidates[i].id][k]) > 0
       /\ Generation(RootCandidates[i].id) = 0
  /\ \E i \in 1..Len(RootCandidates) :
       RootCandidates[i].id \in DOMAIN parentToChildren

\* ---------------------------------------------------------------------------
\* C21: every person the traversal never reaches from a start point through
\* child or spouse links (through present people) has final generation 0 and
\* is still emitted as a node.
\* ---------------------------------------------------------------------------

\* The present persons one child or spouse link away from the person id.
LinkedTo(id) ==
  { c \in InputIds :
      \E i \in RelIndexes :
        LET r == relationships[i]
        IN  IF IsParentRel(r)
            THEN r.person1_id = id /\ r.person2_id = c
            ELSE /\ IsSpouseRel(r)
                 /\ \/ r.person1_id = id /\ r.person2_id = c
                    \/ r.person2_id = id /\ r.person1_id = c }

\* The persons within n links of the set S.
RECURSIVE ReachedFrom(_, _)
ReachedFrom(S, n) ==
  IF n = 0 THEN S
  ELSE ReachedFrom(S \cup UNION { LinkedTo(x) : x \in S }, n - 1)

Unreached ==
  InputIds \ ReachedFrom({ startNodes[k].id : k \in 1..Len(startNodes) },
                         Cardinality(InputIds))

C21_UnreachedAtZeroAndEmitted ==
  Done =>
    \A id \in Unreached :
      /\ id \notin visited
      /\ id \in DOMAIN generations
      /\ generations[id] = 0
      /\ \E k \in 1..Len(nodes) : nodes[k].id = id /\ nodes[k].position.y = 0

C21_Witness ==
  /\ Done
  /\ Unreached # {}
  /\ \E id \in InputIds : Generation(id) > 0

\* ---------------------------------------------------------------------------
\* C22: within each generation row, nodes are placed left to right in the
\* order in which their persons appear in the people list the caller passed,
\* for every input, including inputs where no person is without a recorded
\* parent.
\* ---------------------------------------------------------------------------

\* The position of the person id in the list the caller passed.
InputIndex(id) ==
  CHOOSE i \in 1..Len(callerPeople) : callerPeople[i].id = id

C22_RowOrderIsInputOrder ==
  Done =>
    \A k, j \in 1..Len(nodes) :
      (nodes[k].position.y = nodes[j].position.y
         /\ nodes[k].position.x < nodes[j].position.x)
        => InputIndex(nodes[k].id) < InputIndex(nodes[j].id)

\* ---------------------------------------------------------------------------
\* C23: older generations appear higher, with a smaller y: for any two nodes
\* a and b with generation(a) < generation(b), y(a) < y(b).
\* ---------------------------------------------------------------------------
C23_OlderGenerationSmallerY ==
  Done =>
    \A a, b \in 1..Len(nodes) :
      Generation(nodes[a].id) < Generation(nodes[b].id)
        => nodes[a].position.y < nodes[b].position.y

\* ---------------------------------------------------------------------------
\* C24: for two disconnected families (two groups of people with no
\* relationship between a member of one and a member of the other), both
\* appear and each person's generation in the layout of the combined input
\* equals the generation that person gets when only their own family and its
\* relationships are laid out.
\* ---------------------------------------------------------------------------

\* F and the rest of the people list are two disconnected families.
IsFamilySplit(F) ==
  /\ F # {}
  /\ F # InputIds
  /\ \A i \in RelIndexes :
       /\ ~ (relationships[i].person1_id \in F
              /\ relationships[i].person2_id \in InputIds \ F)
       /\ ~ (relationships[i].person2_id \in F
              /\ relationships[i].person1_id \in InputIds \ F)

\* The persons of the family F in list order, and the family's relationships.
Members(F) == SelectSeq(callerPeople, LAMBDA p : p.id \in F)

RelsOf(F) ==
  SelectSeq(relationships,
            LAMBDA r : r.person1_id \in F \/ r.person2_id \in F)

\* The family F is laid out in the combined layout as it is on its own.
LaidOutAsAlone(F) ==
  \A id \in F :
    /\ id \in NodeIds
    /\ Generation(id)
         = MapGet(CalculateLayout(Members(F), RelsOf(F)).generations, id, 0)

\* C24 as stated.
C24_FamiliesLaidOutAlone ==
  Done =>
    \A F \in SUBSET InputIds : IsFamilySplit(F) => LaidOutAsAlone(F)

HasRoot(F) == Roots(Members(F), ChildToParents(relationships)) # <<>>

\* C24 amended: the same, for two disconnected families each of which has
\* at least one person with no recorded parent.
C24_RootedFamiliesLaidOutAlone ==
  Done =>
    \A F \in SUBSET InputIds :
      (IsFamilySplit(F) /\ HasRoot(F) /\ HasRoot(InputIds \ F))
        => LaidOutAsAlone(F)

C24_Witness ==
  /\ Done
  /\ \E F \in SUBSET InputIds :
       /\ IsFamilySplit(F)
       /\ HasRoot(F)
       /\ HasRoot(InputIds \ F)
       /\ \E id \in F : Generation(id) > 0
       /\ LaidOutAsAlone(F)
       /\ LaidOutAsAlone(InputIds \ F)

\* ---------------------------------------------------------------------------
\* C25: for inputs whose parent-category relationships contain no cycle, the
\* generation assigned to each person does not depend on listing order: it is
\* the same for every permutation of the people list and every permutation
\* of the relationships list.
\* ---------------------------------------------------------------------------

\* The lists holding the elements of s in another order.
Reorderings(s) ==
  { [i \in 1..Len(s) |-> s[f[i]]] :
      f \in { g \in [1..Len(s) -> 1..Len(s)] :
                \A i, j \in 1..Len(s) : g[i] = g[j] => i = j } }

C25_GenerationOrderIndependent ==
  (Done /\ ~HasParentCycle(relationships)) =>
    \A pp \in Reorderings(callerPeople) :
      \A pr \in Reorderings(relationships) :
        \A id \in InputIds :
          MapGet(CalculateLayout(pp, pr).generations, id, 0) = Generation(id)

\* ---------------------------------------------------------------------------
\* C26: no generation is assigned without a reason: every person with final
\* generation g >= 1 has either a parent-category relationship from a present
\* person whose final generation is g - 1, or a spouse-category relationship
\* with a present person whose final generation is g.
\* ---------------------------------------------------------------------------
HasParentAt(id, g) ==
  \E i \in RelIndexes :
    /\ IsParentRel(relationships[i])
    /\ relationships[i].person2_id = id
    /\ relationships[i].person1_id \in InputIds
    /\ Generation(relationships[i].person1_id) = g

HasSpouseAt(id, g) ==
  \E i \in RelIndexes :
    /\ IsSpouseRel(relationships[i])
    /\ \/ /\ relationships[i].person1_id = id
          /\ relationships[i].person2_id \in InputIds
          /\ Generation(relationships[i].person2_id) = g
       \/ /\ relationships[i].person2_id = id
          /\ relationships[i].person1_id \in InputIds
          /\ Generation(relationships[i].person1_id) = g

C26_GenerationHasReason ==
  Done =>
    \A id \in InputIds :
      Generation(id) >= 1 =>
        \/ HasParentAt(id, Generation(id) - 1)
        \/ HasSpouseAt(id, Generation(id))

\* ---------------------------------------------------------------------------
\* C27: sibling-category relationships never influence placement: adding,
\* removing or changing sibling, half_sibling, step_sibling or adopted_sibling
\* relationships leaves the generation and the (x, y) position of every node
\* unchanged; only the edge list changes.  Two inputs that differ in their
\* sibling relationships only have the same list of other relationships, so
\* the layout is compared with the layout of that list.
\* ---------------------------------------------------------------------------
WithoutSiblings(rels) == SelectSeq(rels, LAMBDA r : ~IsSiblingRel(r))

C27_SiblingsDoNotPlace ==
  Done =>
    LET bare == CalculateLayout(callerPeople, WithoutSiblings(relationships))
    IN  /\ nodes = bare.nodes
        /\ \A id \in InputIds :
             Generation(id) = MapGet(bare.generations, id, 0)

C27_Witness ==
  /\ Done
  /\ \E i \in RelIndexes :
       /\ IsSiblingRel(relationships[i])
       /\ BothPresent(relationships[i])
       /\ Generation(relationships[i].person1_id)
            # Generation(relationships[i].person2_id)
       /\ \E k \in 1..Len(edges) :
            /\ edges[k].id = relationships[i].id
            /\ edges[k].source = relationships[i].person1_id
            /\ edges[k].target = relationships[i].person2_id
       /\ Len(edges)
            > Len(CalculateLayout(callerPeople,
                                  WithoutSiblings(relationships)).edges)

\* ---------------------------------------------------------------------------
\* C28: spouse-category relationships are undirected for placement: swapping
\* person1_id and person2_id of any spouse-category relationship leaves the
\* generation and position of every node unchanged (only that edge's source
\* and target swap).
\* ---------------------------------------------------------------------------
SpouseIndexes ==
  { i \in RelIndexes : IsSpouseRel(relationships[i]) }

\* The relationships list with person1_id and person2_id of the
\* relationships at the positions S exchanged.
Swapped(S) ==
  [i \in RelIndexes |->
     IF i \in S
     THEN [relationships[i] EXCEPT !.person1_id = relationships[i].person2_id,
                                   !.person2_id = relationships[i].person1_id]
     ELSE relationships[i]]

C28_SpouseDirectionIrrelevant ==
  Done =>
    \A S \in SUBSET SpouseIndexes :
      LET other == CalculateLayout(callerPeople, Swapped(S))
      IN  /\ other.nodes = nodes
          /\ \A id \in InputIds :
               MapGet(other.generations, id, 0) = Generation(id)
          /\ Len(other.edges) = Len(edges)
          /\ \A e \in 1..Len(edges) :
               other.edges[e] =
                 IF \E i \in S : relationships[i].id = edges[e].id
                 THEN [edges[e] EXCEPT !.source = edges[e].target,
                                       !.target = edges[e].source]
                 ELSE edges[e]

C28_Witness ==
  /\ Done
  /\ \E i \in SpouseIndexes :
       /\ BothPresent(relationships[i])
       /\ relationships[i].person1_id # relationships[i].person2_id
       /\ Generation(relationships[i].person1_id) > 0
       /\ CalculateLayout(callerPeople, Swapped({i})).edges # edges
       /\ CalculateLayout(callerPeople, Swapped({i})).nodes = nodes

\* ---------------------------------------------------------------------------
\* C29: for a people list with pairwise distinct ids, no two output nodes
\* share the same position: any two distinct nodes differ in x or in y.
\* ---------------------------------------------------------------------------
DistinctPersonIds ==
  \A i, j \in 1..Len(callerPeople) :
    callerPeople[i].id = callerPeople[j].id => i = j

C29_NoSharedPosition ==
  (Done /\ DistinctPersonIds) =>
    \A k, j \in 1..Len(nodes) :
      k # j => nodes[k].position # nodes[j].position

C29_Witness ==
  /\ Done
  /\ DistinctPersonIds
  /\ \E k, j \in 1..Len(nodes) :
       /\ nodes[k].position.y = nodes[j].position.y
       /\ nodes[k].position.x # nodes[j].position.x
  /\ \E k, j \in 1..Len(nodes) :
       /\ nodes[k].position.y # nodes[j].position.y
       /\ nodes[k].position.x # nodes[j].position.x

====
